---- MODULE Spec2Model ----
(***************************************************************************)
(* A model of the buddyai agent and controller.                            *)
(*                                                                         *)
(*   Spec     the agent process: load_modules at startup, then the two     *)
(*            HTTP endpoints /execute and /commands_schema.                *)
(*   SpecCtl  the controller's command-line loop.                          *)
(*   SpecRem  the reminder handlers of productivity_ops.py and their       *)
(*            timers, run by concurrent request threads.                   *)
(*   SpecTime set_reminder's computation of the time of a reminder.        *)
(***************************************************************************)
EXTENDS Integers, Sequences, FiniteSets, TLC

VARIABLES
    \* ---- agent_server.py
    agentPc,            \* "boot" | "loading" | "serving" | "crashed": position in __main__
    dirFiles,           \* what os.listdir(modules_dir_path) returns (a set; its order is arbitrary)
    toLoad,             \* files the for loop of load_modules has not reached yet
    COMMAND_REGISTRY,   \* the dict, as its insertion-ordered sequence of <<name, handler>>
    request,            \* the HTTP request being served, NoRequest when idle
    response,           \* the response built for it, NoResponse before it is built
    invoked,            \* the handler calls made while serving the current request
    lastSchema,         \* the command list the last answered GET /commands_schema returned
    \* ---- controller.py
    ctlPc,              \* position in the controller's __main__
    ctlInputs,          \* number of lines read from the user so far
    user_input,         \* the line read last, NoInput before the first
    ctlGets,            \* GET /commands_schema requests issued
    ctlPosts,           \* POST /execute requests issued
    ctlPostsThisInput,  \* POST /execute requests issued for the current input
    command_json,       \* result of translate_to_command_json for the current input
    posted,             \* body of the last POST /execute
    \* ---- productivity_ops.py
    REMINDERS,          \* the dict: reminder id -> [message, timer]
    REMINDER_ID_COUNTER,
    timers,             \* sequence of threading.Timer objects, in creation order
    threads,            \* request threads: each a record with its pc and locals
    calls,              \* number of handler calls started so far
    displayed,          \* reminder ids printed by _show_reminder, in order
    returned,           \* results returned by the handler calls that have finished
    \* ---- productivity_ops.py, set_reminder's computation of the time
    now,                \* datetime.datetime.now() as set_reminder reads it
    time_str,           \* the argument of the call
    scheduled           \* what the call computed from them, NotCalled before it has

agentVars == <<agentPc, dirFiles, toLoad, COMMAND_REGISTRY, request, response, invoked, lastSchema>>
ctlVars == <<ctlPc, ctlInputs, user_input, ctlGets, ctlPosts, ctlPostsThisInput, command_json, posted>>
remVars == <<REMINDERS, REMINDER_ID_COUNTER, timers, threads, calls, displayed, returned>>
timeVars == <<now, time_str, scheduled>>
vars == <<agentVars, ctlVars, remVars, timeVars>>

\* ------------------------------------------------------------------ bounds

\* Largest number of entries os.listdir returns for the modules directory.
MaxFiles == 3
\* Largest number of keys in the 'params' object of a request.
MaxParams == 1
\* Largest number of lines the controller reads from the user.
MaxInputs == 3
\* Number of request threads the server runs at once.
MaxThreads == 2
\* Largest number of reminder handler calls in a run.
MaxCalls == 3

\* ------------------------------------------------------------------ values

\* JSON values a request can carry for a parameter: a string and a number.
JStr == "text"
JInt == "50"
JsonVals == {JStr, JInt}
IsStr(v) == v = JStr

Range(s) == {s[i] : i \in 1..Len(s)}

\* ------------------------------------------------- the modules directory

\* Entries os.listdir can return: the package file, a cache directory, three
\* of the repository's modules, and plugin files of every kind load_modules
\* distinguishes.
File(stem, ext) == [stem |-> stem, ext |-> ext]
FilePool ==
    { File("__init__", "py"), File("__pycache__", ""),
      File("basic_ops", "py"), File("system_info_control", "py"),
      File("application_control", "py"),
      File("custom_ops", "py"), File("needs_missing_lib", "py"),
      File("syntax_error", "py"), File("helpers", "py") }

\* filename.endswith(".py") and filename != "__init__.py"
IsModuleFile(f) == f.ext = "py" /\ f.stem # "__init__"

\* What importlib.import_module(module_import_name) does for a file:
\* "ok", or the class of exception it raises.
ImportResult(f) ==
    CASE f.stem = "needs_missing_lib" -> "ImportError"
      [] f.stem = "syntax_error" -> "Exception"
      [] OTHER -> "ok"

\* hasattr(module, 'COMMANDS') and isinstance(module.COMMANDS, dict)
HasCommandsDict(f) == f.stem # "helpers"

\* module.COMMANDS.items(), in the order the dict literal is written.
COMMANDS(f) ==
    CASE f.stem = "basic_ops" ->
            << <<"tell_time", "get_server_time">>, <<"greet", "greet_user">> >>
      [] f.stem = "system_info_control" ->
            << <<"sys_get_load", "get_system_load">>,
               <<"sys_get_disk", "get_disk_space">>,
               <<"sys_set_volume", "set_system_volume">>,
               <<"sys_take_screenshot", "take_screenshot">> >>
      [] f.stem = "application_control" ->
            << <<"app_open", "open_application">>,
               <<"app_close", "close_application">> >>
      \* a plugin: redefines "greet", and exports a functools.partial object
      [] f.stem = "custom_ops" ->
            << <<"greet", "custom_greet">>,
               <<"tool", "partial_tool">>,
               <<"extra", "custom_extra">> >>
      [] OTHER -> << >>

\* Whether command_function.__name__ exists: it does for a function, not
\* for a functools.partial object or an instance with __call__.
HasDunderName(h) == h # "partial_tool"

\* ------------------------------------------------------- the registry dict

Keys(reg) == {reg[i][1] : i \in 1..Len(reg)}
IndexOf(reg, name) == CHOOSE i \in 1..Len(reg) : reg[i][1] = name
\* A mutant of Lookup: the handler of the neighbouring entry.
Lookup_Neighbour(reg, name) == reg[(IndexOf(reg, name) % Len(reg)) + 1][2]
\* COMMAND_REGISTRY[command_name]
Lookup(reg, name) == reg[IndexOf(reg, name)][2]
\* COMMAND_REGISTRY[command_name] = command_function: a new key goes last,
\* an existing key keeps its place.
DictSet(reg, name, h) ==
    IF name \in Keys(reg)
    THEN [reg EXCEPT ![IndexOf(reg, name)] = <<name, h>>]
    ELSE Append(reg, <<name, h>>)

\* ------------------------------------------------------------ load_modules

\* The inner for loop over module.COMMANDS.items(): each entry is stored in
\* the registry and then printed with command_function.__name__; when that
\* attribute is missing the AttributeError leaves the loop (it is caught by
\* the except Exception clause of the enclosing try).
RECURSIVE RegisterCommands(_, _)
RegisterCommands(reg, cmds) ==
    IF cmds = << >> THEN reg
    ELSE LET stored == DictSet(reg, Head(cmds)[1], Head(cmds)[2])
         IN IF HasDunderName(Head(cmds)[2])
            THEN RegisterCommands(stored, Tail(cmds))
            ELSE stored

\* One iteration of the loop over os.listdir: the body for one file.
LoadOne(reg, f) ==
    IF ~IsModuleFile(f) THEN reg
    ELSE IF ImportResult(f) # "ok" THEN reg
    ELSE IF HasCommandsDict(f) THEN RegisterCommands(reg, COMMANDS(f))
    ELSE reg

\* The exception the body of the loop raises inside its try for one file:
\* the one import_module raises, or the AttributeError of the print of
\* command_function.__name__; "none" when the body runs to its end.
LoadException(f) ==
    IF ~IsModuleFile(f) THEN "none"
    ELSE IF ImportResult(f) # "ok" THEN ImportResult(f)
    ELSE IF HasCommandsDict(f) /\ \E i \in 1..Len(COMMANDS(f)) : ~HasDunderName(COMMANDS(f)[i][2])
    THEN "AttributeError"
    ELSE "none"

\* A mutant of Caught: only the 'except ImportError' clause is there.
Caught_OnlyImportError(exc) == exc = "ImportError"
\* The two except clauses of the try: 'except ImportError' and 'except
\* Exception' take every exception class drawn here.
Caught(exc) == exc \in {"ImportError", "Exception", "AttributeError"}

\* --------------------------------------------------- handler signatures

Param(name, annotation, hasDefault, default) ==
    [name |-> name, annotation |-> annotation, hasDefault |-> hasDefault, default |-> default]
\* param_obj.annotation is inspect.Parameter.empty
NoAnnotation == "<empty>"
\* An annotation that is a class has __name__; a string annotation such as
\* "Name" has none and is shown by str(annotation).
AnnotationHasName(a) == a \in {"str", "int", "bool"}

\* inspect.signature(command_function).parameters, in order.
Signature(h) ==
    CASE h = "greet_user" -> << Param("name", NoAnnotation, TRUE, "Guest") >>
      [] h = "get_disk_space" -> << Param("path", "str", TRUE, "/") >>
      [] h = "set_system_volume" -> << Param("level", "int", FALSE, "") >>
      [] h = "take_screenshot" -> << Param("output_path", "str", TRUE, "screenshot.png") >>
      [] h = "open_application" -> << Param("app_name_or_path", "str", FALSE, "") >>
      [] h = "close_application" -> << Param("app_name", "str", FALSE, "") >>
      [] h = "custom_greet" -> << Param("name", "Name", FALSE, "") >>
      [] OTHER -> << >>   \* get_server_time, get_system_load, partial_tool, custom_extra

ParamNames(h) == {Signature(h)[i].name : i \in 1..Len(Signature(h))}
Required(h) == {Signature(h)[i].name : i \in {j \in 1..Len(Signature(h)) : ~Signature(h)[j].hasDefault}}
DefaultOf(h, k) == (CHOOSE p \in Range(Signature(h)) : p.name = k).default

\* Keys a request's 'params' object may carry: every parameter name above
\* and one that no handler accepts.
ParamKeys == {"name", "path", "level", "output_path", "app_name_or_path", "app_name", "verbose"}
ParamDicts ==
    UNION {[K -> JsonVals] : K \in {S \in SUBSET ParamKeys : Cardinality(S) <= MaxParams}}

\* A mutant of Binds: unknown keywords are tolerated.
Binds_IgnoreUnknown(h, params) == Required(h) \subseteq DOMAIN params
\* Python's binding of **params to the signature: every keyword is a
\* parameter and every parameter without a default is given.
Binds(h, params) ==
    /\ DOMAIN params \subseteq ParamNames(h)
    /\ Required(h) \subseteq DOMAIN params

\* The arguments the body sees: the keywords, and defaults for the rest.
BoundArgs(h, params) ==
    [k \in ParamNames(h) |-> IF k \in DOMAIN params THEN params[k] ELSE DefaultOf(h, k)]

\* ------------------------------------------------------ handler outcomes

NoValue == [status |-> "", message |-> << >>]
Return(h, status) == [kind |-> "return", exc |-> "", value |-> [status |-> status, message |-> <<h>>]]
Raise(exc) == [kind |-> "raise", exc |-> exc, value |-> NoValue]
IsTypeError(exc) == exc = "TypeError"

\* What running the body of handler h with these arguments can do. The
\* bodies wrap most of their work in try/except and return a dict with
\* status "success" or "error"; what they do outside a try can raise.
BodyOutcomes(h, args) ==
    CASE h \in {"get_server_time", "greet_user", "custom_greet", "partial_tool", "custom_extra"} ->
            {Return(h, "success")}
      [] h \in {"get_system_load", "take_screenshot"} ->
            {Return(h, "success"), Return(h, "error")}
      \* get_disk_space: on Windows '":" in path' precedes the try
      [] h = "get_disk_space" ->
            IF IsStr(args["path"])
            THEN {Return(h, "success"), Return(h, "error")}
            ELSE {Return(h, "success"), Return(h, "error"), Raise("TypeError")}
      \* set_system_volume: 'if not (0 <= level <= 100)' precedes the try
      [] h = "set_system_volume" ->
            IF IsStr(args["level"])
            THEN {Raise("TypeError")}
            ELSE {Return(h, "success"), Return(h, "error")}
      \* open_application: app_name_or_path.lower() and .endswith() precede
      \* the try; ' '.join(command_to_run_list) is in an except clause
      [] h = "open_application" ->
            IF IsStr(args["app_name_or_path"])
            THEN {Return(h, "success"), Return(h, "error")}
            ELSE {Raise("AttributeError"), Raise("TypeError")}
      \* close_application: app_name.lower() precedes the try, after the
      \* 'if not psutil' return
      [] h = "close_application" ->
            IF IsStr(args["app_name"])
            THEN {Return(h, "success"), Return(h, "error")}
            ELSE {Return(h, "error"), Raise("AttributeError")}

\* COMMAND_REGISTRY[command_name](**params): the outcome and whether the
\* body ran. params is a record [isDict, d]; ** of a non-mapping raises.
CallOutcomes(h, params) ==
    IF ~params.isDict \/ ~Binds(h, params.d)
    THEN {[out |-> Raise("TypeError"), bodyRan |-> FALSE]}
    ELSE {[out |-> o, bodyRan |-> TRUE] : o \in BodyOutcomes(h, BoundArgs(h, params.d))}

\* ---------------------------------------------------------------- execute

\* A request to /execute. is_json: the Content-Type says JSON. shape: what
\* request.get_json() finds in the body: "malformed" (it raises), a JSON
\* "number", an "array" without the element "command_name", an
\* "array_with_name" that has it, or an "object" with or without the two keys.
Req(is_json, shape, hasName, command_name, hasParams, params) ==
    [endpoint |-> "execute", is_json |-> is_json, shape |-> shape,
     hasName |-> hasName, command_name |-> command_name,
     hasParams |-> hasParams, params |-> params]
Dict(d) == [isDict |-> TRUE, d |-> d]
JsonNull == [isDict |-> FALSE, d |-> << >>]
\* A command_name that is a JSON array: not hashable in Python.
UnhashableName == "['greet']"
PoolCommandNames == UNION {{COMMANDS(f)[i][1] : i \in 1..Len(COMMANDS(f))} : f \in FilePool}
RequestNames == PoolCommandNames \cup {"no_such_command", UnhashableName}

ExecuteRequests ==
    {Req(FALSE, "object", TRUE, "greet", FALSE, Dict(<< >>)),
     Req(TRUE, "malformed", FALSE, "", FALSE, Dict(<< >>)),
     Req(TRUE, "number", FALSE, "", FALSE, Dict(<< >>)),
     Req(TRUE, "array", FALSE, "", FALSE, Dict(<< >>)),
     Req(TRUE, "array_with_name", FALSE, "", FALSE, Dict(<< >>)),
     Req(TRUE, "object", FALSE, "", FALSE, Dict(<< >>))}
    \cup {Req(TRUE, "object", TRUE, n, FALSE, Dict(<< >>)) : n \in RequestNames}
    \cup {Req(TRUE, "object", TRUE, n, TRUE, JsonNull) : n \in RequestNames}
    \cup {Req(TRUE, "object", TRUE, n, TRUE, Dict(d)) : n \in RequestNames, d \in ParamDicts}

NoRequest == [endpoint |-> "none"]
NoResponse == [code |-> 0]
\* No GET /commands_schema has been answered yet.
NoSchema == <<"none">>
\* jsonify(body), code
Resp(code, body) == [code |-> code, body |-> body]

\* data.get('params', {})
ParamsOf(req) == IF req.hasParams THEN req.params ELSE Dict(<< >>)

\* A mutant of ResponseFor: only TypeError is caught.
ResponseFor_OnlyTypeError(command_name, out) ==
    IF out.kind = "return" THEN Resp(200, out.value)
    ELSE IF IsTypeError(out.exc)
    THEN Resp(400, [status |-> "error",
                    message |-> <<"Parameter mismatch for command", command_name, out.exc>>])
    ELSE [code |-> 0, propagated |-> out.exc]
\* A mutant of ResponseFor: the status code is 200 whatever happened.
ResponseFor_Always200(command_name, out) ==
    IF out.kind = "return" THEN Resp(200, out.value)
    ELSE Resp(200, [status |-> "error",
                    message |-> <<"Error executing command", command_name, out.exc>>])
\* The try block around the handler call: the response for each way the
\* call can end.
ResponseFor(command_name, out) ==
    IF out.kind = "return" THEN Resp(200, out.value)
    ELSE IF IsTypeError(out.exc)
    THEN Resp(400, [status |-> "error",
                    message |-> <<"Parameter mismatch for command", command_name, out.exc>>])
    ELSE Resp(500, [status |-> "error",
                    message |-> <<"Error executing command", command_name, out.exc>>])

\* The outer except clause: any exception raised outside the handler call.
InvalidJson == Resp(400, [error |-> "Invalid JSON format", details |-> "str(e)"])
\* A mutant of MustBeJson: the status is 415, Unsupported Media Type.
MustBeJson_415 == Resp(415, [error |-> "Request must be JSON"])
\* The else branch of 'if request.is_json'.
MustBeJson == Resp(400, [error |-> "Request must be JSON"])
\* The branch of "if 'command_name' not in data".
MissingCommandName == Resp(400, [error |-> "Missing 'command_name' in JSON payload"])
\* A mutant of NotFound: the status is 400.
NotFound_As400 == Resp(400, [error |-> "unfound function"])
\* The else branch of 'if command_name in COMMAND_REGISTRY'.
NotFound == Resp(404, [error |-> "unfound function"])

\* execute(): every way the view can end for this request with this
\* registry, as [response, invoked], invoked being the handler calls made.
ExecuteResults(reg, req) ==
    LET none(r) == {[response |-> r, invoked |-> << >>]}
    IN  IF ~req.is_json THEN none(MustBeJson)
        \* request.get_json() raises; 'command_name' not in <number> raises
        ELSE IF req.shape \in {"malformed", "number"} THEN none(InvalidJson)
        \* data['command_name'] raises for a list
        ELSE IF req.shape = "array_with_name" THEN none(InvalidJson)
        ELSE IF req.shape = "array" \/ ~req.hasName THEN none(MissingCommandName)
        \* command_name in COMMAND_REGISTRY raises for an unhashable name
        ELSE IF req.command_name = UnhashableName THEN none(InvalidJson)
        ELSE IF req.command_name \in Keys(reg)
        THEN LET h == Lookup(reg, req.command_name)
             IN {[response |-> ResponseFor(req.command_name, c.out),
                  invoked |-> << [handler |-> h, params |-> ParamsOf(req),
                                  bodyRan |-> c.bodyRan, out |-> c.out] >>] :
                 c \in CallOutcomes(h, ParamsOf(req))}
        ELSE none(NotFound)

\* ---------------------------------------------------- get_commands_schema

\* inspect.getdoc(command_function): a functools.partial object shows the
\* docstring of its class.
HasDocstring(h) == h \notin {"get_server_time", "greet_user"}

\* str(annotation) and annotation.__name__
StrOf(a) == IF AnnotationHasName(a) THEN "<class '" \o a \o "'>" ELSE a
DunderName(a) == a

\* A mutant of ParamInfo: the "default" key is always written.
ParamInfo_DefaultAlways(p) ==
    LET type == IF p.annotation # NoAnnotation
                THEN IF AnnotationHasName(p.annotation)
                     THEN DunderName(p.annotation) ELSE StrOf(p.annotation)
                ELSE "string"
    IN [type |-> type, optional |-> p.hasDefault, description |-> "", default |-> p.default]
\* A mutant of ParamInfo: the type is always str(annotation).
ParamInfo_StrOfAnnotation(p) ==
    IF p.hasDefault
    THEN [type |-> StrOf(p.annotation), optional |-> TRUE, description |-> "", default |-> p.default]
    ELSE [type |-> StrOf(p.annotation), optional |-> FALSE, description |-> ""]
\* The body of the loop over sig.parameters: the param_info of one parameter.
ParamInfo(p) ==
    LET type == IF p.annotation # NoAnnotation
                THEN IF AnnotationHasName(p.annotation)
                     THEN DunderName(p.annotation) ELSE StrOf(p.annotation)
                ELSE "string"
    IN IF p.hasDefault
       THEN [type |-> type, optional |-> TRUE, description |-> "", default |-> p.default]
       ELSE [type |-> type, optional |-> FALSE, description |-> ""]

\* params_schema: the dict filled by the loop, as its sequence of items.
RECURSIVE ParamsSchema(_, _)
ParamsSchema(acc, sig) ==
    IF sig = << >> THEN acc
    ELSE ParamsSchema(DictSet(acc, Head(sig).name, ParamInfo(Head(sig))), Tail(sig))

\* schema_list: one entry appended per item of COMMAND_REGISTRY.
RECURSIVE SchemaList(_, _)
SchemaList(acc, reg) ==
    IF reg = << >> THEN acc
    ELSE LET h == Head(reg)[2]
         IN SchemaList(
                Append(acc, [name |-> Head(reg)[1],
                             description |-> IF HasDocstring(h) THEN <<"doc", h>>
                                             ELSE <<"No description available.">>,
                             params_schema_for_prompt |-> ParamsSchema(<< >>, Signature(h))]),
                Tail(reg))

SchemaResponse(reg) == Resp(200, [status |-> "success", commands |-> SchemaList(<< >>, reg)])

\* ---------------------------------------------------- the agent's actions

\* __main__ calls load_modules(); the for loop starts over os.listdir.
Boot ==
    /\ agentPc = "boot"
    /\ agentPc' = "loading"
    /\ toLoad' = dirFiles
    /\ UNCHANGED <<dirFiles, COMMAND_REGISTRY, request, response, invoked, lastSchema>>

\* One iteration of the for loop of load_modules; os.listdir's order is
\* arbitrary, so any remaining file may be next. An exception no except
\* clause takes leaves load_modules and ends the process.
LoadModule ==
    /\ agentPc = "loading"
    /\ \E f \in toLoad :
        /\ COMMAND_REGISTRY' = LoadOne(COMMAND_REGISTRY, f)
        /\ toLoad' = toLoad \ {f}
        /\ agentPc' = IF LoadException(f) = "none" \/ Caught(LoadException(f))
                      THEN agentPc ELSE "crashed"
    /\ UNCHANGED <<dirFiles, request, response, invoked, lastSchema>>

\* A mutant of LoadReturned: app.run() while the loop is still running.
LoadReturned_Early == agentPc = "loading"
\* load_modules has returned: whether __main__ goes on to app.run().
LoadReturned == agentPc = "loading" /\ toLoad = {}

\* load_modules() returns and app.run() starts serving.
StartServing ==
    /\ LoadReturned
    /\ agentPc' = "serving"
    /\ UNCHANGED <<dirFiles, toLoad, COMMAND_REGISTRY, request, response, invoked, lastSchema>>

\* A mutant of RegistryAfterExecute: a command whose call failed is
\* unregistered.
RegistryAfterExecute_DropFailed(reg, req, resp) ==
    IF resp.code \in {400, 500} /\ req.is_json /\ req.shape = "object" /\ req.hasName
    THEN SelectSeq(reg, LAMBDA e : e[1] # req.command_name)
    ELSE reg

\* The registry after execute has built this response: neither execute
\* nor a handler assigns to COMMAND_REGISTRY or deletes from it.
RegistryAfterExecute(reg, req, resp) == reg

\* POST /execute: the whole view function.
Execute ==
    /\ agentPc = "serving"
    /\ request = NoRequest
    /\ \E req \in ExecuteRequests : \E r \in ExecuteResults(COMMAND_REGISTRY, req) :
        /\ request' = req
        /\ response' = r.response
        /\ invoked' = r.invoked
        /\ COMMAND_REGISTRY' = RegistryAfterExecute(COMMAND_REGISTRY, req, r.response)
    /\ UNCHANGED <<agentPc, dirFiles, toLoad, lastSchema>>

\* A mutant of GetCommandsSchema: the loop takes the items out of the
\* registry with popitem().
GetCommandsSchema_Draining ==
    /\ agentPc = "serving"
    /\ request = NoRequest
    /\ request' = [endpoint |-> "commands_schema"]
    /\ response' = SchemaResponse(COMMAND_REGISTRY)
    /\ invoked' = << >>
    /\ COMMAND_REGISTRY' = << >>
    /\ UNCHANGED <<agentPc, dirFiles, toLoad, lastSchema>>
\* GET /commands_schema: the whole view function.
GetCommandsSchema ==
    /\ agentPc = "serving"
    /\ request = NoRequest
    /\ request' = [endpoint |-> "commands_schema"]
    /\ response' = SchemaResponse(COMMAND_REGISTRY)
    /\ invoked' = << >>
    /\ UNCHANGED <<agentPc, dirFiles, toLoad, COMMAND_REGISTRY, lastSchema>>

\* Flask sends the response; the request is over.
SendResponse ==
    /\ request # NoRequest
    /\ lastSchema' = IF request.endpoint = "commands_schema" THEN response.body.commands
                     ELSE lastSchema
    /\ request' = NoRequest
    /\ response' = NoResponse
    /\ invoked' = << >>
    /\ UNCHANGED <<agentPc, dirFiles, toLoad, COMMAND_REGISTRY>>

AgentInit ==
    /\ agentPc = "boot"
    /\ toLoad = {}
    /\ COMMAND_REGISTRY = << >>
    /\ request = NoRequest
    /\ response = NoResponse
    /\ invoked = << >>
    /\ lastSchema = NoSchema

Directories == {S \in SUBSET FilePool : Cardinality(S) <= MaxFiles}

\* -------------------------------------------------------------- controller

\* A line typed by the user: a word with optional whitespace around it.
Line(pre, word, post) == [pre |-> pre, word |-> word, post |-> post]
Words == {"exit", "EXIT", "Quit", "", "open chrome"}
UserInputs == {Line(a, w, b) : a \in {"", " "}, w \in Words, b \in {"", " "}}
NoInput == [none |-> TRUE]
\* user_input.strip()
Strip(line) == line.word
\* A mutant of Lower: the word is compared as typed.
Lower_AsTyped(w) == w
\* str.lower()
Lower(w) ==
    CASE w = "EXIT" -> "exit"
      [] w = "Quit" -> "quit"
      [] OTHER -> w

\* What translate_to_command_json can return: a function call chosen by the
\* model, or a dict with an 'error' key (no function call, or an exception).
Translations ==
    {[command_name |-> n, params |-> d] :
        n \in {"greet", "sys_set_volume"},
        d \in {<< >>, [name |-> JStr], [level |-> JInt]}}
    \cup {[error |-> "Gemini did not choose a function to call.", text_response |-> "text"],
          [error |-> "Failed to process with Gemini (function calling)"]}
NoCommand == [none |-> TRUE]

\* A mutant of HasErrorKey: the check is skipped.
HasErrorKey_Skipped(cj) == FALSE
\* "error" in command_json
HasErrorKey(cj) == "error" \in DOMAIN cj

\* schema = fetch_commands_schema(): one GET; on a request error the
\* function returns {"commands": []}. An empty list ends the process.
FetchSchema ==
    /\ ctlPc = "start"
    /\ ctlGets' = ctlGets + 1
    /\ \E commands \in {"some", "none"} :
        ctlPc' = IF commands = "none" THEN "exited" ELSE "prompt"
    /\ UNCHANGED <<ctlInputs, user_input, ctlPosts, ctlPostsThisInput, command_json, posted>>

\* user_input = input("You > ") and the two tests that follow it.
ReadInput ==
    /\ ctlPc = "prompt"
    /\ ctlInputs < MaxInputs
    /\ user_input' \in UserInputs
    /\ ctlPc' = IF Lower(Strip(user_input')) \in {"exit", "quit"} THEN "exited"
                ELSE IF Strip(user_input') = "" THEN "prompt"
                ELSE "translate"
    /\ ctlInputs' = ctlInputs + 1
    /\ ctlPostsThisInput' = 0
    /\ command_json' = NoCommand
    /\ UNCHANGED <<ctlGets, ctlPosts, posted>>

\* command_json = translate_to_command_json(...) and the test of its result.
Translate ==
    /\ ctlPc = "translate"
    /\ \E cj \in Translations :
        /\ command_json' = cj
        /\ ctlPc' = IF HasErrorKey(cj) THEN "prompt" ELSE "send"
    /\ UNCHANGED <<ctlInputs, user_input, ctlGets, ctlPosts, ctlPostsThisInput, posted>>

\* response = send_command_to_agent(command_json): one POST with the dict
\* as its JSON body; every failure is turned into a dict and printed.
SendCommand ==
    /\ ctlPc = "send"
    /\ posted' = command_json
    /\ ctlPosts' = ctlPosts + 1
    /\ ctlPostsThisInput' = ctlPostsThisInput + 1
    /\ ctlPc' = "prompt"
    /\ UNCHANGED <<ctlInputs, user_input, ctlGets, command_json>>

CtlInit ==
    /\ ctlPc = "start"
    /\ ctlInputs = 0
    /\ user_input = NoInput
    /\ ctlGets = 0
    /\ ctlPosts = 0
    /\ ctlPostsThisInput = 0
    /\ command_json = NoCommand
    /\ posted = NoCommand

\* ------------------------------------------------- set_reminder: the time

\* A str, as the sequence of its characters.
Digits == {"0", "1", "2", "3", "4", "5", "6", "7", "8", "9"}
DigitVal(c) ==
    CASE c = "0" -> 0 [] c = "1" -> 1 [] c = "2" -> 2 [] c = "3" -> 3 [] c = "4" -> 4
      [] c = "5" -> 5 [] c = "6" -> 6 [] c = "7" -> 7 [] c = "8" -> 8 [] c = "9" -> 9

\* str.split(sep): the parts between the separators, empty parts included.
RECURSIVE SplitAcc(_, _, _, _)
SplitAcc(s, sep, cur, acc) ==
    IF s = << >> THEN Append(acc, cur)
    ELSE IF Head(s) = sep THEN SplitAcc(Tail(s), sep, << >>, Append(acc, cur))
    ELSE SplitAcc(Tail(s), sep, Append(cur, Head(s)), acc)
Split(s, sep) == SplitAcc(s, sep, << >>, << >>)

\* str.strip() of blanks, as int() applies it to its argument.
RECURSIVE LStrip(_)
LStrip(s) == IF s # << >> /\ Head(s) = " " THEN LStrip(Tail(s)) ELSE s
RECURSIVE RStrip(_)
RStrip(s) == IF s # << >> /\ s[Len(s)] = " " THEN RStrip(SubSeq(s, 1, Len(s) - 1)) ELSE s

RECURSIVE DigitsValue(_, _)
DigitsValue(acc, s) == IF s = << >> THEN acc ELSE DigitsValue(acc * 10 + DigitVal(Head(s)), Tail(s))

\* int(s) for a str of digits, blanks, signs and other characters (no
\* underscore): blanks around are dropped, one sign is accepted, the rest
\* must be one or more digits; [ok, n], ok FALSE standing for ValueError.
PyInt(s) ==
    LET t == RStrip(LStrip(s))
        signed == t # << >> /\ Head(t) \in {"+", "-"}
        digs == IF signed THEN Tail(t) ELSE t
    IN  IF digs # << >> /\ Range(digs) \subseteq Digits
        THEN [ok |-> TRUE, n |-> IF signed /\ Head(t) = "-" THEN 0 - DigitsValue(0, digs)
                                 ELSE DigitsValue(0, digs)]
        ELSE [ok |-> FALSE, n |-> 0]

\* A naive datetime.datetime.
DateTime(y, mo, d, h, mi, s, us) ==
    [year |-> y, month |-> mo, day |-> d, hour |-> h, minute |-> mi, second |-> s, microsecond |-> us]
NoTime == DateTime(0, 0, 0, 0, 0, 0, 0)

IsLeap(y) == y % 4 = 0 /\ (y % 100 # 0 \/ y % 400 = 0)
DaysInMonth(y, m) ==
    IF m = 2 THEN (IF IsLeap(y) THEN 29 ELSE 28)
    ELSE IF m \in {4, 6, 9, 11} THEN 30 ELSE 31

\* datetime's check of its fields: a field out of range is a ValueError.
ValidDate(y, m, d) == y \in 1..9999 /\ m \in 1..12 /\ d \in 1..DaysInMonth(y, m)
ValidClock(h, mi) == h \in 0..23 /\ mi \in 0..59

\* a < b for two datetimes: the fields are compared in order.
RECURSIVE LexLess(_, _)
LexLess(a, b) ==
    IF a = << >> THEN FALSE
    ELSE IF Head(a) # Head(b) THEN Head(a) < Head(b)
    ELSE LexLess(Tail(a), Tail(b))
Fields(t) == <<t.year, t.month, t.day, t.hour, t.minute, t.second, t.microsecond>>
Before(a, b) == LexLess(Fields(a), Fields(b))

\* date.toordinal(): days since 0001-01-01, that day being 1.
RECURSIVE DaysBeforeMonth(_, _)
DaysBeforeMonth(y, m) == IF m = 1 THEN 0 ELSE DaysBeforeMonth(y, m - 1) + DaysInMonth(y, m - 1)
Ordinal(t) ==
    (t.year - 1) * 365 + ((t.year - 1) \div 4) - ((t.year - 1) \div 100) + ((t.year - 1) \div 400)
        + DaysBeforeMonth(t.year, t.month) + t.day

\* t + datetime.timedelta(days=1): the same clock time on the next date.
\* (The clock values drawn below stay far from datetime.MAXYEAR.)
AddDay(t) ==
    IF t.day < DaysInMonth(t.year, t.month) THEN [t EXCEPT !.day = t.day + 1]
    ELSE IF t.month < 12 THEN [t EXCEPT !.month = t.month + 1, !.day = 1]
    ELSE [t EXCEPT !.year = t.year + 1, !.month = 1, !.day = 1]

\* a - b: a datetime.timedelta, normalised as Python keeps it
\* (0 <= seconds < 86400, 0 <= microseconds < 1000000).
Minus(a, b) ==
    LET us0 == a.microsecond - b.microsecond
        s0 == (a.hour * 3600 + a.minute * 60 + a.second)
                - (b.hour * 3600 + b.minute * 60 + b.second) - (IF us0 < 0 THEN 1 ELSE 0)
        d0 == Ordinal(a) - Ordinal(b) - (IF s0 < 0 THEN 1 ELSE 0)
    IN  [days |-> d0,
         seconds |-> IF s0 < 0 THEN s0 + 86400 ELSE s0,
         microseconds |-> IF us0 < 0 THEN us0 + 1000000 ELSE us0]

\* A mutant of NextOccurrence: the time is kept on today's date.
NextOccurrence_AlwaysToday(reminder_time_today, n) == reminder_time_today
\* if reminder_time_today < now: reminder_time = reminder_time_today +
\* timedelta(days=1); else: reminder_time = reminder_time_today
NextOccurrence(reminder_time_today, n) ==
    IF Before(reminder_time_today, n) THEN AddDay(reminder_time_today) ELSE reminder_time_today

\* What the try block of set_reminder yields before the counter is touched.
Scheduled(t, n) == [status |-> "scheduled", reminder_time |-> t, delay |-> Minus(t, n), message |-> ""]
NoDelay == [days |-> 0, seconds |-> 0, microseconds |-> 0]
TimeError(msg) == [status |-> "error", reminder_time |-> NoTime, delay |-> NoDelay, message |-> msg]
ValueErrorMessage == "Invalid time string or components"

\* The 'HH:MM' branch: hour, minute = map(int, time_str.split(':')) raises
\* ValueError unless there are two parts and int() accepts both;
\* now.replace(...) raises ValueError for an hour or minute out of range.
ParseClock(ts, n) ==
    LET parts == Split(ts, ":")
    IN  IF Len(parts) # 2 \/ ~PyInt(parts[1]).ok \/ ~PyInt(parts[2]).ok
        THEN [ok |-> FALSE, t |-> NoTime]
        ELSE IF ~ValidClock(PyInt(parts[1]).n, PyInt(parts[2]).n)
        THEN [ok |-> FALSE, t |-> NoTime]
        ELSE [ok |-> TRUE,
              t |-> NextOccurrence(
                        [n EXCEPT !.hour = PyInt(parts[1]).n, !.minute = PyInt(parts[2]).n,
                                  !.second = 0, !.microsecond = 0], n)]

\* datetime.strptime(time_str, "%Y-%m-%d %H:%M") for a str of 16 characters
\* with the separators in place and no blank inside a field: every field
\* must be digits and the date and time must exist, else ValueError.
ParseDated(ts) ==
    LET y == SubSeq(ts, 1, 4)
        mo == SubSeq(ts, 6, 7)
        d == SubSeq(ts, 9, 10)
        h == SubSeq(ts, 12, 13)
        mi == SubSeq(ts, 15, 16)
    IN  IF ~(Range(y) \cup Range(mo) \cup Range(d) \cup Range(h) \cup Range(mi) \subseteq Digits)
        THEN [ok |-> FALSE, t |-> NoTime]
        ELSE IF ~ValidDate(DigitsValue(0, y), DigitsValue(0, mo), DigitsValue(0, d))
                \/ ~ValidClock(DigitsValue(0, h), DigitsValue(0, mi))
        THEN [ok |-> FALSE, t |-> NoTime]
        ELSE [ok |-> TRUE,
              t |-> DateTime(DigitsValue(0, y), DigitsValue(0, mo), DigitsValue(0, d),
                             DigitsValue(0, h), DigitsValue(0, mi), 0, 0)]

\* set_reminder(time_str, message) from its first line to delay_seconds:
\* the time the reminder is scheduled for, or the error dict returned.
ReminderTime(ts, n) ==
    LET parsed ==
            IF Len(ts) = 5 /\ ":" \in Range(ts) THEN ParseClock(ts, n)
            ELSE ParseDated(ts)
    IN  IF ~(Len(ts) = 5 /\ ":" \in Range(ts))
           /\ ~(Len(ts) = 16 /\ ts[5] = "-" /\ ts[8] = "-" /\ ts[11] = " " /\ ts[14] = ":")
        THEN TimeError("Invalid time format")
        ELSE IF ~parsed.ok THEN TimeError(ValueErrorMessage)
        ELSE IF Before(parsed.t, n) THEN TimeError("Cannot set reminder for a past time")
        ELSE Scheduled(parsed.t, n)

\* Values of time_str: clock times before, at and after the clock values
\* below, times int() accepts in other spellings, times out of range,
\* strings of the wrong shape, and dated times in the past and the future.
TimeStrs ==
    { <<"0", "9", ":", "3", "0">>, <<"0", "9", ":", "3", "1">>, <<"0", "0", ":", "0", "0">>,
      <<"2", "3", ":", "5", "9">>, <<"1", "2", ":", "0", "0">>,
      <<" ", "9", ":", "3", "0">>, <<"9", ":", "3", "0", " ">>, <<"+", "9", ":", "3", "0">>,
      <<"2", "4", ":", "0", "0">>, <<"1", "2", ":", "6", "0">>, <<"-", "1", ":", "3", "0">>,
      <<"a", "b", ":", "c", "d">>, <<"1", ":", "2", ":", "3">>, <<"0", "9", "3", "0", ":">>,
      <<"0", "9", "-", "3", "0">>, <<"9", ":", "3", "0">>,
      <<"2", "0", "2", "0", "-", "0", "1", "-", "0", "1", " ", "0", "9", ":", "3", "0">>,
      <<"2", "0", "3", "0", "-", "0", "1", "-", "0", "1", " ", "0", "9", ":", "3", "0">>,
      <<"2", "0", "2", "5", "-", "0", "2", "-", "2", "9", " ", "0", "9", ":", "3", "0">>,
      <<"2", "0", "3", "0", "-", "0", "1", "-", "0", "1", " ", "x", "9", ":", "3", "0">> }

\* Values of datetime.datetime.now(): dates inside a month, at the end of a
\* month, of February in a leap and a common year, and of the year; clock
\* times at midnight, on a minute, inside a minute, and just before midnight.
Nows ==
    { DateTime(d[1], d[2], d[3], c[1], c[2], c[3], c[4]) :
        d \in { <<2026, 11, 1>>, <<2026, 4, 30>>, <<2024, 2, 28>>, <<2025, 2, 28>>, <<2026, 12, 31>> },
        c \in { <<0, 0, 0, 0>>, <<9, 30, 0, 0>>, <<9, 30, 0, 1>>, <<9, 30, 15, 0>>,
                <<23, 59, 59, 999999>> } }

NotCalled == [status |-> "none"]

\* A call of set_reminder: the lines from now = datetime.datetime.now() to
\* delay_seconds.
ComputeReminderTime ==
    /\ scheduled = NotCalled
    /\ scheduled' = ReminderTime(time_str, now)
    /\ UNCHANGED <<now, time_str>>

\* The call is over; the next one comes with its own argument and clock.
NextSetReminderCall ==
    /\ scheduled # NotCalled
    /\ now' \in Nows
    /\ time_str' \in TimeStrs
    /\ scheduled' = NotCalled

TimeInit ==
    /\ now = CHOOSE n \in Nows : \A m \in Nows : ~Before(m, n)
    /\ time_str = << >>
    /\ scheduled = NotCalled

\* --------------------------------------------------------------- reminders

Threads == 1..MaxThreads
Idle == [pc |-> "idle", call |-> 0, rid |-> 0, tmp |-> 0, timer |-> 0, seen |-> {}, size |-> 0]

\* del d[k]
DictDel(d, k) == [x \in DOMAIN d \ {k} |-> d[x]]
\* d[k] = v
DictPut(d, k, v) == (k :> v) @@ d

\* reminder_id as the request carries it: an integer, or a string int() rejects.
CancelArgs == {[isInt |-> TRUE, n |-> k] : k \in 1..MaxCalls} \cup {[isInt |-> FALSE, n |-> 0]}

SetTimerState(i, st) == [timers EXCEPT ![i].state = st]
\* threading.Timer.cancel(): sets the finished event; a timer that has
\* already passed its test of the event is not stopped.
TimerCancel(i) ==
    IF timers[i].state \in {"new", "waiting"} THEN SetTimerState(i, "cancelled") ELSE timers
\* threading.Timer.start(): the timer thread begins to wait, unless the
\* event is already set.
TimerStart(i) ==
    IF timers[i].state = "new" THEN SetTimerState(i, "waiting") ELSE timers

Finish(t, result) ==
    /\ threads' = [threads EXCEPT ![t] = Idle]
    /\ returned' = returned \cup {result}

\* The ways the time computation of set_reminder can end, over every
\* argument and clock value: scheduled, or one of its error messages.
TimeOutcomes ==
    {[status |-> ReminderTime(ts, n).status, message |-> ReminderTime(ts, n).message] :
        ts \in TimeStrs, n \in Nows}

\* set_reminder(time_str, message) up to the increment: the time string is
\* parsed and compared with now; a bad or past time returns an error dict.
CallSetReminder(t) ==
    /\ threads[t].pc = "idle"
    /\ calls < MaxCalls
    /\ calls' = calls + 1
    /\ \E o \in TimeOutcomes :
        IF o.status = "scheduled"
        THEN /\ threads' = [threads EXCEPT ![t] = [Idle EXCEPT !.pc = "sr_load", !.call = calls + 1]]
             /\ UNCHANGED returned
        ELSE Finish(t, [call |-> calls + 1, op |-> "set_reminder", status |-> "error",
                        message |-> o.message])
    /\ UNCHANGED <<REMINDERS, REMINDER_ID_COUNTER, timers, displayed>>

\* REMINDER_ID_COUNTER += 1, first half: the global is read.
SrLoad(t) ==
    /\ threads[t].pc = "sr_load"
    /\ threads' = [threads EXCEPT ![t].tmp = REMINDER_ID_COUNTER, ![t].pc = "sr_store"]
    /\ UNCHANGED <<REMINDERS, REMINDER_ID_COUNTER, timers, calls, displayed, returned>>

\* REMINDER_ID_COUNTER += 1, second half: the sum is stored.
SrStore(t) ==
    /\ threads[t].pc = "sr_store"
    /\ REMINDER_ID_COUNTER' = threads[t].tmp + 1
    /\ threads' = [threads EXCEPT ![t].pc = "sr_read"]
    /\ UNCHANGED <<REMINDERS, timers, calls, displayed, returned>>

\* current_id = REMINDER_ID_COUNTER
SrRead(t) ==
    /\ threads[t].pc = "sr_read"
    /\ threads' = [threads EXCEPT ![t].rid = REMINDER_ID_COUNTER, ![t].pc = "sr_put"]
    /\ UNCHANGED <<REMINDERS, REMINDER_ID_COUNTER, timers, calls, displayed, returned>>

\* timer = threading.Timer(...); REMINDERS[current_id] = {...}
SrPut(t) ==
    /\ threads[t].pc = "sr_put"
    /\ timers' = Append(timers, [state |-> "new", rid |-> threads[t].rid, call |-> threads[t].call])
    /\ REMINDERS' = DictPut(REMINDERS, threads[t].rid,
                            [message |-> threads[t].call, timer |-> Len(timers) + 1])
    /\ threads' = [threads EXCEPT ![t].timer = Len(timers) + 1, ![t].pc = "sr_start"]
    /\ UNCHANGED <<REMINDER_ID_COUNTER, calls, displayed, returned>>

\* timer.start(); return {"status": "success", "reminder_id": current_id, ...}
SrStart(t) ==
    /\ threads[t].pc = "sr_start"
    /\ timers' = TimerStart(threads[t].timer)
    /\ Finish(t, [call |-> threads[t].call, op |-> "set_reminder", status |-> "success",
                  reminder_id |-> threads[t].rid, timer |-> threads[t].timer])
    /\ UNCHANGED <<REMINDERS, REMINDER_ID_COUNTER, calls, displayed>>

\* cancel_reminder(reminder_id) up to the test: rid = int(reminder_id);
\* if rid in REMINDERS.
CallCancelReminder(t) ==
    /\ threads[t].pc = "idle"
    /\ calls < MaxCalls
    /\ calls' = calls + 1
    /\ \E arg \in CancelArgs :
        IF ~arg.isInt
        THEN Finish(t, [call |-> calls + 1, op |-> "cancel_reminder", status |-> "error",
                        message |-> "Invalid reminder ID format"])
        ELSE IF arg.n \in DOMAIN REMINDERS
        THEN /\ threads' = [threads EXCEPT ![t] =
                               [Idle EXCEPT !.pc = "cc_cancel", !.call = calls + 1, !.rid = arg.n]]
             /\ UNCHANGED returned
        ELSE Finish(t, [call |-> calls + 1, op |-> "cancel_reminder", status |-> "error",
                        message |-> "not found or already past"])
    /\ UNCHANGED <<REMINDERS, REMINDER_ID_COUNTER, timers, displayed>>

\* REMINDERS[rid]['timer'].cancel(); a KeyError is caught by the except
\* Exception clause.
CcCancel(t) ==
    /\ threads[t].pc = "cc_cancel"
    /\ IF threads[t].rid \in DOMAIN REMINDERS
       THEN /\ timers' = TimerCancel(REMINDERS[threads[t].rid].timer)
            /\ threads' = [threads EXCEPT ![t].timer = REMINDERS[threads[t].rid].timer,
                                          ![t].pc = "cc_del"]
            /\ UNCHANGED returned
       ELSE /\ Finish(t, [call |-> threads[t].call, op |-> "cancel_reminder", status |-> "error",
                          message |-> "Failed to cancel reminder ID"])
            /\ UNCHANGED timers
    /\ UNCHANGED <<REMINDERS, REMINDER_ID_COUNTER, calls, displayed>>

\* del REMINDERS[rid]; return {"status": "success", ...}; a KeyError is
\* caught by the except Exception clause.
CcDel(t) ==
    /\ threads[t].pc = "cc_del"
    /\ IF threads[t].rid \in DOMAIN REMINDERS
       THEN /\ REMINDERS' = DictDel(REMINDERS, threads[t].rid)
            /\ Finish(t, [call |-> threads[t].call, op |-> "cancel_reminder", status |-> "success",
                          rid |-> threads[t].rid, timer |-> threads[t].timer])
       ELSE /\ Finish(t, [call |-> threads[t].call, op |-> "cancel_reminder", status |-> "error",
                          message |-> "Failed to cancel reminder ID"])
            /\ UNCHANGED REMINDERS
    /\ UNCHANGED <<REMINDER_ID_COUNTER, timers, calls, displayed>>

\* What list_reminders returns when nothing runs between its statements.
ListedIds(rem) == DOMAIN rem
\* list_reminders() up to the loop: if not REMINDERS: return an empty list.
CallListReminders(t) ==
    /\ threads[t].pc = "idle"
    /\ calls < MaxCalls
    /\ calls' = calls + 1
    /\ IF DOMAIN REMINDERS = {}
       THEN Finish(t, [call |-> calls + 1, op |-> "list_reminders", status |-> "success", ids |-> {}])
       ELSE /\ threads' = [threads EXCEPT ![t] =
                              [Idle EXCEPT !.pc = "ls_iter", !.call = calls + 1,
                                           !.size = Cardinality(DOMAIN REMINDERS)]]
            /\ UNCHANGED returned
    /\ UNCHANGED <<REMINDERS, REMINDER_ID_COUNTER, timers, displayed>>

\* One step of 'for rid, r_info in REMINDERS.items()': the iterator raises
\* RuntimeError when the dict has changed size, list_reminders does not
\* catch it; otherwise the next item is appended, and after the last one
\* the list is returned.
LsIter(t) ==
    /\ threads[t].pc = "ls_iter"
    /\ IF Cardinality(DOMAIN REMINDERS) # threads[t].size
       THEN Finish(t, [call |-> threads[t].call, op |-> "list_reminders", status |-> "raised",
                       exc |-> "RuntimeError"])
       ELSE IF ListedIds(REMINDERS) \subseteq threads[t].seen
       THEN Finish(t, [call |-> threads[t].call, op |-> "list_reminders", status |-> "success",
                       ids |-> threads[t].seen])
       ELSE /\ \E k \in ListedIds(REMINDERS) \ threads[t].seen :
                /\ \A j \in ListedIds(REMINDERS) \ threads[t].seen : k <= j
                /\ threads' = [threads EXCEPT ![t].seen = @ \cup {k}]
            /\ UNCHANGED returned
    /\ UNCHANGED <<REMINDERS, REMINDER_ID_COUNTER, timers, calls, displayed>>

\* threading.Timer.run(): the interval has passed and the finished event
\* is not set, so the function is about to be called.
TimerFire(i) ==
    /\ timers[i].state = "waiting"
    /\ timers' = SetTimerState(i, "fired")
    /\ UNCHANGED <<REMINDERS, REMINDER_ID_COUNTER, threads, calls, displayed, returned>>

\* _show_reminder: print(...)
ShowPrint(i) ==
    /\ timers[i].state = "fired"
    /\ displayed' = Append(displayed, [rid |-> timers[i].rid, timer |-> i])
    /\ timers' = SetTimerState(i, "printed")
    /\ UNCHANGED <<REMINDERS, REMINDER_ID_COUNTER, threads, calls, returned>>

\* _show_reminder: if reminder_id in REMINDERS
ShowCheck(i) ==
    /\ timers[i].state = "printed"
    /\ timers' = SetTimerState(i, IF timers[i].rid \in DOMAIN REMINDERS THEN "deleting" ELSE "done")
    /\ UNCHANGED <<REMINDERS, REMINDER_ID_COUNTER, threads, calls, displayed, returned>>

\* _show_reminder: del REMINDERS[reminder_id]; a KeyError ends the timer thread.
ShowDelete(i) ==
    /\ timers[i].state = "deleting"
    /\ IF timers[i].rid \in DOMAIN REMINDERS
       THEN /\ REMINDERS' = DictDel(REMINDERS, timers[i].rid)
            /\ timers' = SetTimerState(i, "done")
       ELSE /\ timers' = SetTimerState(i, "KeyError")
            /\ UNCHANGED REMINDERS
    /\ UNCHANGED <<REMINDER_ID_COUNTER, threads, calls, displayed, returned>>

RemInit ==
    /\ REMINDERS = << >>
    /\ REMINDER_ID_COUNTER = 0
    /\ timers = << >>
    /\ threads = [t \in Threads |-> Idle]
    /\ calls = 0
    /\ displayed = << >>
    /\ returned = {}

\* ---------------------------------------------------------- specifications

\* The agent process, for any content of the modules directory.
Init ==
    /\ AgentInit
    /\ dirFiles \in Directories
    /\ CtlInit
    /\ RemInit
    /\ TimeInit

Next ==
    \/ Boot /\ UNCHANGED <<ctlVars, remVars, timeVars>>
    \/ LoadModule /\ UNCHANGED <<ctlVars, remVars, timeVars>>
    \/ StartServing /\ UNCHANGED <<ctlVars, remVars, timeVars>>
    \/ Execute /\ UNCHANGED <<ctlVars, remVars, timeVars>>
    \/ GetCommandsSchema /\ UNCHANGED <<ctlVars, remVars, timeVars>>
    \/ SendResponse /\ UNCHANGED <<ctlVars, remVars, timeVars>>

Spec == Init /\ [][Next]_vars

\* The controller process.
InitCtl ==
    /\ AgentInit
    /\ dirFiles = {}
    /\ CtlInit
    /\ RemInit
    /\ TimeInit

NextCtl ==
    \/ FetchSchema /\ UNCHANGED <<agentVars, remVars, timeVars>>
    \/ ReadInput /\ UNCHANGED <<agentVars, remVars, timeVars>>
    \/ Translate /\ UNCHANGED <<agentVars, remVars, timeVars>>
    \/ SendCommand /\ UNCHANGED <<agentVars, remVars, timeVars>>

SpecCtl == InitCtl /\ [][NextCtl]_vars

\* The reminder handlers, called by concurrent request threads, and the
\* timer threads they start.
InitRem ==
    /\ AgentInit
    /\ dirFiles = {}
    /\ CtlInit
    /\ RemInit
    /\ TimeInit

NextRem ==
    \/ \E t \in Threads : CallSetReminder(t) /\ UNCHANGED <<agentVars, ctlVars, timeVars>>
    \/ \E t \in Threads : SrLoad(t) /\ UNCHANGED <<agentVars, ctlVars, timeVars>>
    \/ \E t \in Threads : SrStore(t) /\ UNCHANGED <<agentVars, ctlVars, timeVars>>
    \/ \E t \in Threads : SrRead(t) /\ UNCHANGED <<agentVars, ctlVars, timeVars>>
    \/ \E t \in Threads : SrPut(t) /\ UNCHANGED <<agentVars, ctlVars, timeVars>>
    \/ \E t \in Threads : SrStart(t) /\ UNCHANGED <<agentVars, ctlVars, timeVars>>
    \/ \E t \in Threads : CallCancelReminder(t) /\ UNCHANGED <<agentVars, ctlVars, timeVars>>
    \/ \E t \in Threads : CcCancel(t) /\ UNCHANGED <<agentVars, ctlVars, timeVars>>
    \/ \E t \in Threads : CcDel(t) /\ UNCHANGED <<agentVars, ctlVars, timeVars>>
    \/ \E t \in Threads : CallListReminders(t) /\ UNCHANGED <<agentVars, ctlVars, timeVars>>
    \/ \E t \in Threads : LsIter(t) /\ UNCHANGED <<agentVars, ctlVars, timeVars>>
    \/ \E i \in 1..Len(timers) : TimerFire(i) /\ UNCHANGED <<agentVars, ctlVars, timeVars>>
    \/ \E i \in 1..Len(timers) : ShowPrint(i) /\ UNCHANGED <<agentVars, ctlVars, timeVars>>
    \/ \E i \in 1..Len(timers) : ShowCheck(i) /\ UNCHANGED <<agentVars, ctlVars, timeVars>>
    \/ \E i \in 1..Len(timers) : ShowDelete(i) /\ UNCHANGED <<agentVars, ctlVars, timeVars>>

SpecRem == InitRem /\ [][NextRem]_vars

\* set_reminder's computation of the time, for any argument and clock.
InitTime ==
    /\ AgentInit
    /\ dirFiles = {}
    /\ CtlInit
    /\ RemInit
    /\ now \in Nows
    /\ time_str \in TimeStrs
    /\ scheduled = NotCalled

NextTime ==
    \/ ComputeReminderTime /\ UNCHANGED <<agentVars, ctlVars, remVars>>
    \/ NextSetReminderCall /\ UNCHANGED <<agentVars, ctlVars, remVars>>

SpecTime == InitTime /\ [][NextTime]_vars

\* ------------------------------------------------------------------ claims

\* The handler registered under a name: the one the registry pairs with it.
RegisteredHandler(name) ==
    CHOOSE h \in {COMMAND_REGISTRY[i][2] : i \in 1..Len(COMMAND_REGISTRY)} :
        <<name, h>> \in Range(COMMAND_REGISTRY)

\* The request being served is a JSON POST to /execute naming a registered
\* command, with 'params' absent or an object that binds to the handler.
DispatchCase ==
    /\ request.endpoint = "execute"
    /\ request.is_json
    /\ request.shape = "object"
    /\ request.hasName
    /\ request.command_name \in Keys(COMMAND_REGISTRY)
    /\ ParamsOf(request).isDict
    /\ Binds(RegisteredHandler(request.command_name), ParamsOf(request).d)

\* Exactly one call, of the handler registered under the name, with 'params'
\* as its keyword arguments.
CalledOnceAsRegistered ==
    /\ Len(invoked) = 1
    /\ invoked[1].handler = RegisteredHandler(request.command_name)
    /\ invoked[1].params = (IF request.hasParams THEN request.params ELSE Dict(<< >>))
    /\ invoked[1].bodyRan

\* C1 as stated: a JSON POST to /execute with a registered command_name and
\* binding params calls the handler registered under that name exactly
\* once with params as keyword arguments and is answered 200 with the
\* handler's return value as the body.
C1_AsStated ==
    DispatchCase =>
        /\ CalledOnceAsRegistered
        /\ response.code = 200
        /\ response.body = invoked[1].out.value

\* C1 amended: such a request calls the handler registered under that name
\* exactly once with params as keyword arguments; when the handler returns,
\* the response is 200 with the return value as the body, and when it
\* raises, the response is not 200.
C1_DispatchToRegistered ==
    DispatchCase =>
        /\ CalledOnceAsRegistered
        /\ invoked[1].out.kind = "return" =>
                response.code = 200 /\ response.body = invoked[1].out.value
        /\ invoked[1].out.kind = "raise" => response.code \in {400, 500}

\* A request with a keyword argument was dispatched, with two commands
\* registered, and the handler returned.
C1_Witness ==
    /\ DispatchCase
    /\ Len(COMMAND_REGISTRY) >= 2
    /\ ParamsOf(request).d # << >>
    /\ response.code = 200

\* C2: an exception raised while execute calls a registered handler becomes
\* a JSON body with status "error" and a message, with code 400 for a
\* TypeError and 500 for any other exception; nothing propagates.
C2_ExceptionsTranslated ==
    (request.endpoint = "execute" /\ Len(invoked) = 1 /\ invoked[1].out.kind = "raise") =>
        /\ response.code = (IF invoked[1].out.exc = "TypeError" THEN 400 ELSE 500)
        /\ DOMAIN response.body = {"status", "message"}
        /\ response.body.status = "error"

\* A handler body raised an exception that is not a TypeError.
C2_Witness ==
    /\ request.endpoint = "execute"
    /\ Len(invoked) = 1
    /\ invoked[1].bodyRan
    /\ invoked[1].out.kind = "raise"
    /\ invoked[1].out.exc = "AttributeError"
    /\ response.code = 500

\* C3: a call to /execute that ends in 400, 404 or 500 leaves the registry
\* as it was and the server serving, so every registered command is still
\* dispatched to the same handler.
C3_ErrorIsolation ==
    [][(request = NoRequest /\ request'.endpoint = "execute"
            /\ response'.code \in {400, 404, 500}) =>
        /\ COMMAND_REGISTRY' = COMMAND_REGISTRY
        /\ agentPc' = "serving"
        /\ \A n \in Keys(COMMAND_REGISTRY) :
                n \in Keys(COMMAND_REGISTRY') /\ Lookup(COMMAND_REGISTRY', n) = Lookup(COMMAND_REGISTRY, n)]_vars

\* A handler raised, the answer was 500, and the command is registered.
C3_Witness ==
    /\ request.endpoint = "execute"
    /\ response.code = 500
    /\ request.command_name \in Keys(COMMAND_REGISTRY)

\* The files load_modules is meant to take commands from.
LoadableFiles == {f \in dirFiles : IsModuleFile(f) /\ ImportResult(f) = "ok" /\ HasCommandsDict(f)}
ExportedNames(f) == {COMMANDS(f)[i][1] : i \in 1..Len(COMMANDS(f))}

\* C4 as stated: after load_modules returns, the registry's keys are
\* exactly the command names of the COMMANDS dicts of the files that are
\* .py, not __init__.py, import successfully and export a dict COMMANDS.
C4_AsStated ==
    agentPc = "serving" =>
        Keys(COMMAND_REGISTRY) = UNION {ExportedNames(f) : f \in LoadableFiles}

\* C5: the schema has one entry per registry key, named after it, and each
\* entry has one record per parameter of the handler's signature with its
\* type (the annotation's name, "string" without annotation) and its
\* default when it has one.
C5_SchemaMatchesRegistry ==
    request.endpoint = "commands_schema" =>
        LET commands == response.body.commands
        IN  /\ Len(commands) = Cardinality(Keys(COMMAND_REGISTRY))
            /\ {commands[i].name : i \in 1..Len(commands)} = Keys(COMMAND_REGISTRY)
            /\ \A i \in 1..Len(commands) :
                LET sig == Signature(RegisteredHandler(commands[i].name))
                    ps == commands[i].params_schema_for_prompt
                IN  /\ Len(ps) = Len(sig)
                    /\ \A p \in Range(sig) :
                        \E j \in 1..Len(ps) :
                            /\ ps[j][1] = p.name
                            /\ \A k \in 1..Len(ps) : ps[k][1] = p.name => k = j
                            /\ ps[j][2].type =
                                (IF p.annotation = NoAnnotation THEN "string" ELSE p.annotation)
                            /\ p.hasDefault <=> "default" \in DOMAIN ps[j][2]
                            /\ p.hasDefault => ps[j][2].default = p.default

\* A schema was built for a registry holding parameters with a class
\* annotation, without annotation, with and without a default.
C5_Witness ==
    /\ request.endpoint = "commands_schema"
    /\ {"greet_user", "set_system_volume"} \subseteq {COMMAND_REGISTRY[i][2] : i \in 1..Len(COMMAND_REGISTRY)}
    /\ Len(response.body.commands) >= 6

\* C6: no request is served before load_modules has gone through the whole
\* directory, and once serving nothing changes the registry.
C6_LoadedBeforeServing ==
    /\ [](request # NoRequest => (agentPc = "serving" /\ toLoad = {}))
    /\ [][agentPc = "serving" => COMMAND_REGISTRY' = COMMAND_REGISTRY]_vars

\* A request is being served by a registry loaded from three files.
C6_Witness ==
    /\ request # NoRequest
    /\ Cardinality(dirFiles) = 3
    /\ Len(COMMAND_REGISTRY) >= 3

\* C7: the controller issues one GET /commands_schema, at startup, at most
\* one POST /execute per input, a POST only for a translation without an
\* 'error' key, and posts exactly the translation's command_name and params.
C7_ControllerRequests ==
    /\ [](/\ ctlGets = (IF ctlPc = "start" THEN 0 ELSE 1)
          /\ ctlPostsThisInput <= 1
          /\ ctlPosts <= ctlInputs)
    /\ [][ctlPosts' # ctlPosts =>
            /\ ctlPosts' = ctlPosts + 1
            /\ "error" \notin DOMAIN command_json
            /\ DOMAIN posted' = {"command_name", "params"}
            /\ posted' = command_json]_vars

\* Two commands have been posted, and the translation of a third input
\* returned an error, after which the loop is back at its prompt.
C7_Witness ==
    /\ ctlPosts = 2
    /\ ctlInputs = 3
    /\ "error" \in DOMAIN command_json
    /\ ctlPc = "prompt"

\* Results of the calls that have returned.
SetSuccesses == {r \in returned : r.op = "set_reminder" /\ r.status = "success"}
CancelSuccesses == {r \in returned : r.op = "cancel_reminder" /\ r.status = "success"}
\* Timers whose reminder is pending beyond doubt: stored, the timer neither
\* fired nor cancelled.
PendingTimers == {i \in 1..Len(timers) : timers[i].state \in {"new", "waiting"}}
\* Timers whose reminder is over beyond doubt: _show_reminder has ended, or
\* cancel_reminder has returned success for it.
OverTimers ==
    {i \in 1..Len(timers) : timers[i].state \in {"done", "KeyError"}}
        \cup {r.timer : r \in CancelSuccesses}

\* C8 as stated: no two successful set_reminder calls return the same
\* reminder_id, and the REMINDERS entry of a pending reminder is the one its
\* own call stored: no other call has replaced it.
C8_AsStated ==
    /\ \A r1, r2 \in SetSuccesses : r1.call # r2.call => r1.reminder_id # r2.reminder_id
    /\ \A i \in 1..Len(timers) :
        timers[i].state \in {"new", "waiting"} =>
            /\ timers[i].rid \in DOMAIN REMINDERS
            /\ REMINDERS[timers[i].rid].timer = i

\* C9 as stated: in every state list_reminders returns exactly the ids of
\* the reminders that were set and have neither been shown nor been
\* cancelled, and a reminder that has been shown is not in REMINDERS. A
\* reminder whose timer is firing or whose cancellation is under way counts
\* as either, so that only settled reminders decide.
C9_AsStated ==
    /\ \A i \in PendingTimers : timers[i].rid \in ListedIds(REMINDERS)
    /\ \A k \in ListedIds(REMINDERS) :
        \E i \in 1..Len(timers) : timers[i].rid = k /\ i \notin OverTimers
    /\ \A i \in 1..Len(timers) :
        timers[i].state \in {"done", "KeyError"} =>
            ~(timers[i].rid \in DOMAIN REMINDERS /\ REMINDERS[timers[i].rid].timer = i)

\* C10 as stated: once cancel_reminder(id) has returned success, the timer
\* of that reminder never displays it, and list_reminders does not list id.
C10_AsStated ==
    [][/\ Len(displayed') > Len(displayed) =>
            displayed'[Len(displayed')].timer \notin {r.timer : r \in CancelSuccesses}
       /\ \A r \in CancelSuccesses : r.rid \notin ListedIds(REMINDERS')]_vars

\* time_str is 'HH:MM': two digits, a colon, two digits, the hour at most
\* 23 and the minute at most 59.
HH(ts) == DigitVal(ts[1]) * 10 + DigitVal(ts[2])
MM(ts) == DigitVal(ts[4]) * 10 + DigitVal(ts[5])
IsHHMM(ts) ==
    /\ Len(ts) = 5
    /\ ts[3] = ":"
    /\ {ts[1], ts[2], ts[4], ts[5]} \subseteq Digits
    /\ HH(ts) <= 23
    /\ MM(ts) <= 59
\* HH:MM:00 on the date of now.
TodayAt(ts) == [now EXCEPT !.hour = HH(ts), !.minute = MM(ts), !.second = 0, !.microsecond = 0]

\* C11: for a time_str 'HH:MM' with a valid hour and minute, set_reminder
\* schedules the reminder at HH:MM:00, on the date of now when that moment
\* is not before now and on the following date when it is; the scheduled
\* time is not before now and less than 24 hours after it, and the call is
\* not rejected (as a past time or otherwise).
C11_ClockTimeScheduled ==
    (scheduled # NotCalled /\ IsHHMM(time_str)) =>
        /\ scheduled.status = "scheduled"
        /\ scheduled.message # "Cannot set reminder for a past time"
        /\ ~Before(TodayAt(time_str), now) => scheduled.reminder_time = TodayAt(time_str)
        /\ Before(TodayAt(time_str), now) =>
                /\ Ordinal(scheduled.reminder_time) = Ordinal(now) + 1
                /\ scheduled.reminder_time.hour = HH(time_str)
                /\ scheduled.reminder_time.minute = MM(time_str)
                /\ scheduled.reminder_time.second = 0
                /\ scheduled.reminder_time.microsecond = 0
        /\ ~Before(scheduled.reminder_time, now)
        /\ scheduled.delay.days = 0

\* On 31 December at 09:30:15 a reminder for 09:30 was scheduled on
\* 1 January of the next year, 23 hours 59 minutes 45 seconds later.
C11_Witness ==
    /\ scheduled # NotCalled
    /\ IsHHMM(time_str)
    /\ now.month = 12 /\ now.day = 31 /\ now.second = 15
    /\ scheduled.status = "scheduled"
    /\ scheduled.reminder_time.year = now.year + 1
    /\ scheduled.reminder_time.month = 1
    /\ scheduled.reminder_time.day = 1
    /\ scheduled.delay = [days |-> 0, seconds |-> 86385, microseconds |-> 0]

\* C12: GET /commands_schema leaves COMMAND_REGISTRY and the reminder store
\* as they were and calls no handler, and it returns the same commands in
\* the same order as the previous GET /commands_schema did (load_modules
\* does not run between two requests).
C12_SchemaReadOnlyRepeatable ==
    /\ []((request.endpoint = "commands_schema" /\ lastSchema # NoSchema) =>
            response.body.commands = lastSchema)
    /\ [][(request = NoRequest /\ request'.endpoint = "commands_schema") =>
            /\ COMMAND_REGISTRY' = COMMAND_REGISTRY
            /\ REMINDERS' = REMINDERS
            /\ REMINDER_ID_COUNTER' = REMINDER_ID_COUNTER
            /\ timers' = timers
            /\ invoked' = << >>]_vars

\* A second GET /commands_schema has returned the four commands, in the
\* registry's order, that an earlier one returned.
C12_Witness ==
    /\ request.endpoint = "commands_schema"
    /\ lastSchema # NoSchema
    /\ Len(lastSchema) >= 4
    /\ response.body.commands = lastSchema
    /\ \A i \in 1..Len(lastSchema) : lastSchema[i].name = COMMAND_REGISTRY[i][1]

\* C13: in the schema returned by /commands_schema, a parameter record has
\* "optional" true exactly when the handler's parameter has a default
\* value, and has a "default" key exactly when "optional" is true.
C13_OptionalIffDefault ==
    request.endpoint = "commands_schema" =>
        \A i \in 1..Len(response.body.commands) :
            LET ps == response.body.commands[i].params_schema_for_prompt
                sig == Signature(RegisteredHandler(response.body.commands[i].name))
            IN  \A j \in 1..Len(ps) :
                    \E p \in Range(sig) :
                        /\ p.name = ps[j][1]
                        /\ ps[j][2].optional <=> p.hasDefault
                        /\ "default" \in DOMAIN ps[j][2] <=> ps[j][2].optional

\* A schema was returned that describes greet's parameter name, optional
\* with default "Guest", and sys_set_volume's parameter level, required
\* and without a "default" key.
C13_Witness ==
    /\ request.endpoint = "commands_schema"
    /\ \E i, k \in 1..Len(response.body.commands) :
        LET pi == response.body.commands[i].params_schema_for_prompt
            pk == response.body.commands[k].params_schema_for_prompt
        IN  /\ response.body.commands[i].name = "greet"
            /\ Len(pi) = 1
            /\ pi[1][2] = [type |-> "string", optional |-> TRUE, description |-> "", default |-> "Guest"]
            /\ response.body.commands[k].name = "sys_set_volume"
            /\ Len(pk) = 1
            /\ pk[1][2] = [type |-> "int", optional |-> FALSE, description |-> ""]

\* The request being served is a JSON POST to /execute whose payload is an
\* object with a 'command_name' that is not a key of COMMAND_REGISTRY.
UnknownCommandCase ==
    /\ request.endpoint = "execute"
    /\ request.is_json
    /\ request.shape = "object"
    /\ request.hasName
    /\ request.command_name \notin Keys(COMMAND_REGISTRY)

\* C14 as stated: a JSON POST to /execute whose command_name is not a key of
\* COMMAND_REGISTRY is answered 404 with body {"error": "unfound function"},
\* and no handler is called.
C14_AsStated ==
    UnknownCommandCase =>
        /\ response.code = 404
        /\ response.body = [error |-> "unfound function"]
        /\ invoked = << >>

\* C14 amended: such a request is answered 404 with body {"error":
\* "unfound function"} when the command_name is a hashable JSON value (a
\* string, number, boolean or null) and 400 with error "Invalid JSON
\* format" when it is an array or object; either way no handler is called
\* and the registry, the position of the server and the reminder store
\* stay as they were.
C14_UnknownCommand ==
    /\ [](UnknownCommandCase =>
            /\ invoked = << >>
            /\ request.command_name # UnhashableName =>
                    response.code = 404 /\ response.body = [error |-> "unfound function"]
            /\ request.command_name = UnhashableName =>
                    response.code = 400 /\ response.body.error = "Invalid JSON format")
    /\ [][(request = NoRequest /\ request'.endpoint = "execute" /\ response'.code = 404) =>
            /\ COMMAND_REGISTRY' = COMMAND_REGISTRY
            /\ agentPc' = agentPc
            /\ lastSchema' = lastSchema
            /\ REMINDERS' = REMINDERS
            /\ REMINDER_ID_COUNTER' = REMINDER_ID_COUNTER
            /\ timers' = timers]_vars

\* With commands registered, a request naming "no_such_command" with a
\* keyword argument was answered 404.
C14_Witness ==
    /\ UnknownCommandCase
    /\ request.command_name = "no_such_command"
    /\ ParamsOf(request).isDict
    /\ ParamsOf(request).d # << >>
    /\ Len(COMMAND_REGISTRY) >= 2
    /\ response = Resp(404, [error |-> "unfound function"])

\* The request being served is one execute answers without looking a
\* handler up: not JSON, a body that does not parse, a payload that is not
\* an object, an object without 'command_name', or an unhashable name.
RejectedBeforeDispatch ==
    /\ request.endpoint = "execute"
    /\ \/ ~request.is_json
       \/ request.shape # "object"
       \/ ~request.hasName
       \/ request.command_name = UnhashableName
\* The request carries a JSON payload that has no 'command_name' key.
PayloadWithoutName ==
    /\ request.endpoint = "execute"
    /\ request.is_json
    /\ request.shape \in {"number", "array", "array_with_name", "object"}
    /\ ~request.hasName

\* C15 as stated: a request to /execute rejected before dispatch is answered
\* 400 and no handler is called; a request that is not JSON gets {"error":
\* "Request must be JSON"} and a JSON payload without a 'command_name' key
\* gets {"error": "Missing 'command_name' in JSON payload"}.
C15_AsStated ==
    /\ RejectedBeforeDispatch => (response.code = 400 /\ invoked = << >>)
    /\ (request.endpoint = "execute" /\ ~request.is_json) =>
            response.body = [error |-> "Request must be JSON"]
    /\ PayloadWithoutName =>
            response.body = [error |-> "Missing 'command_name' in JSON payload"]

\* C15 amended: a request to /execute rejected before dispatch is answered
\* 400 and no handler is called; a request whose content type is not JSON
\* gets {"error": "Request must be JSON"}; a JSON object without a
\* 'command_name' key, or a JSON array without the element "command_name",
\* gets {"error": "Missing 'command_name' in JSON payload"}; a body that
\* does not parse, a JSON number, and an array with that element get the
\* error "Invalid JSON format".
C15_RejectedBeforeDispatch ==
    /\ RejectedBeforeDispatch => (response.code = 400 /\ invoked = << >>)
    /\ (request.endpoint = "execute" /\ ~request.is_json) =>
            response.body = [error |-> "Request must be JSON"]
    /\ (PayloadWithoutName /\ request.shape \in {"object", "array"}) =>
            response.body = [error |-> "Missing 'command_name' in JSON payload"]
    /\ (request.endpoint = "execute" /\ request.is_json
            /\ request.shape \in {"malformed", "number", "array_with_name"}) =>
            response.body.error = "Invalid JSON format"

\* With commands registered, a JSON object without 'command_name' was
\* answered 400 with the "Missing 'command_name'" error.
C15_Witness ==
    /\ PayloadWithoutName
    /\ request.shape = "object"
    /\ Len(COMMAND_REGISTRY) >= 2
    /\ response = Resp(400, [error |-> "Missing 'command_name' in JSON payload"])
    /\ invoked = << >>

\* The request being served names a registered command and its params
\* object has a key that is no parameter of the handler, or lacks a
\* parameter that has no default.
UnknownKeyword ==
    \E k \in DOMAIN ParamsOf(request).d : k \notin ParamNames(RegisteredHandler(request.command_name))
MissingRequired ==
    \E i \in 1..Len(Signature(RegisteredHandler(request.command_name))) :
        LET p == Signature(RegisteredHandler(request.command_name))[i]
        IN  ~p.hasDefault /\ p.name \notin DOMAIN ParamsOf(request).d
MismatchCase ==
    /\ request.endpoint = "execute"
    /\ request.is_json
    /\ request.shape = "object"
    /\ request.hasName
    /\ request.command_name \in Keys(COMMAND_REGISTRY)
    /\ ParamsOf(request).isDict
    /\ UnknownKeyword \/ MissingRequired

\* C16: when the params do not match the handler's signature (an unknown
\* keyword or a missing required parameter), execute answers 400 with
\* status "error" and a message that starts with "Parameter mismatch for
\* command", and the handler's body is not run.
C16_ParameterMismatch ==
    MismatchCase =>
        /\ response.code = 400
        /\ response.body.status = "error"
        /\ response.body.message[1] = "Parameter mismatch for command"
        /\ \A i \in 1..Len(invoked) : ~invoked[i].bodyRan

\* greet, whose handler takes only 'name', was called with the keyword
\* 'verbose' and answered 400; the call was made and the body did not run.
C16_Witness ==
    /\ MismatchCase
    /\ request.command_name = "greet"
    /\ DOMAIN ParamsOf(request).d = {"verbose"}
    /\ response.code = 400
    /\ Len(invoked) = 1
    /\ ~invoked[1].bodyRan

\* A file whose module imports, has a dict COMMANDS and is processed to
\* the end of the loop body.
FullyLoadable(f) ==
    /\ IsModuleFile(f)
    /\ ImportResult(f) = "ok"
    /\ HasCommandsDict(f)
    /\ \A i \in 1..Len(COMMANDS(f)) : HasDunderName(COMMANDS(f)[i][2])

IsExitLine(line) == line # NoInput /\ line.word \in {"exit", "EXIT", "Quit"}
IsBlankLine(line) == line # NoInput /\ line.word = ""

\* C18: in the controller's loop an input of 'exit' or 'quit' (any case,
\* blanks around ignored) ends the loop, after which the controller does
\* nothing more; a blank input leads to no translation and to no request
\* to the agent; a translation with an 'error' key leads to no request to
\* the agent, and the loop is back at its prompt for the next input.
C18_ReadLoop ==
    /\ [](/\ IsExitLine(user_input) => ctlPc = "exited"
          /\ IsBlankLine(user_input) =>
                (ctlPc = "prompt" /\ command_json = NoCommand /\ ctlPostsThisInput = 0)
          /\ "error" \in DOMAIN command_json => (ctlPc = "prompt" /\ ctlPostsThisInput = 0))
    /\ [][ctlPc = "exited" => UNCHANGED ctlVars]_vars

\* After a command was posted, the line ' EXIT ' ended the loop.
C18_Witness ==
    /\ user_input = Line(" ", "EXIT", " ")
    /\ ctlPc = "exited"
    /\ ctlPosts >= 1
    /\ ctlInputs = 3

\* C19: every request to /execute gets one JSON response, with status code
\* 200, 400, 404 or 500, and the code is 200 only when a registered handler
\* was called and returned without raising, whatever status the returned
\* body carries.
C19_ExecuteTotal ==
    request.endpoint = "execute" =>
        /\ response # NoResponse
        /\ DOMAIN response = {"code", "body"}
        /\ response.code \in {200, 400, 404, 500}
        /\ response.code = 200 =>
                /\ request.command_name \in Keys(COMMAND_REGISTRY)
                /\ Len(invoked) = 1
                /\ invoked[1].handler = RegisteredHandler(request.command_name)
                /\ invoked[1].bodyRan
                /\ invoked[1].out.kind = "return"
                /\ response.body = invoked[1].out.value

\* A handler returned a body with status "error" and the answer was 200.
C19_Witness ==
    /\ request.endpoint = "execute"
    /\ response.code = 200
    /\ Len(invoked) = 1
    /\ invoked[1].out.kind = "return"
    /\ response.body.status = "error"

\* Every reminder has an id of its own: no two timers were created for the
\* same id.
DistinctIds == \A i, j \in 1..Len(timers) : timers[i].rid = timers[j].rid => i = j

\* C20 as stated: however _show_reminder, run by a reminder's timer, and a
\* cancel_reminder for the same id interleave, neither fails on a missing
\* key (the entry is deleted by one of them only), and cancel_reminder
\* returns success or the "not found or already past" error. Reminders
\* that share an id are left out, and so is a cancel_reminder whose
\* argument is no integer.
C20_AsStated ==
    DistinctIds =>
        /\ \A i \in 1..Len(timers) : timers[i].state # "KeyError"
        /\ \A r \in returned :
                (r.op = "cancel_reminder" /\ r.status = "error") =>
                    r.message \in {"not found or already past", "Invalid reminder ID format"}

====
